---- MODULE Spec2Model ----
(***************************************************************************)
(* A model of src/main.py: the DistributedcomputingFramework class (the    *)
(* metrics accumulator, the task executor, the semaphore-bounded batch      *)
(* runner, the report generator) and the entry point main().                *)
(*                                                                          *)
(* Scheduling is asyncio's: one thread, and a coroutine runs without        *)
(* interruption from one suspension point to the next.  Every action below  *)
(* is one such uninterrupted run.  The suspension points are the gate wait  *)
(* of line 88, the sleep of line 60 and the join of line 91.                *)
(*                                                                          *)
(* Time is counted in ticks of 0.1 s.  clock.mono is the event loop's       *)
(* monotonic clock, which drives asyncio.sleep; clock.wall is time.time(),  *)
(* the wall clock, which the system may set forward or back.  Computation   *)
(* takes no time: the monotonic clock advances only when nothing is ready   *)
(* to run.  Float arithmetic is modelled by exact rationals.                *)
(***************************************************************************)
EXTENDS Integers, Sequences, FiniteSets, TLC

\* ------------------------------------------------------------- bounds

\* Largest worker limit a configuration is given.
MaxWorkers == 2
\* Largest number of work items the callers submit, over all their batches.
MaxTasks == 3
\* Number of run_batch_processing calls made on the instance.
MaxBatches == 2
\* Number of distinct task identifiers the callers supply.
MaxId == 1
\* How often the system sets the wall clock, and by how many ticks at most.
MaxClockSteps == 1
MaxJump == 2
\* The wall clock's reading, in ticks, when the program starts.
WallStart == 9
\* Batch sizes and limits of the timing specification.
MaxWaveTasks == 5
MaxWaveWorkers == 3

\* ---------------------------------------------------- program constants

\* asyncio.sleep(0.1): one tick.
SleepTicks == 1
\* Ticks in a second: time.time() truncated by int() counts whole seconds.
TicksPerSecond == 10
\* ResearchConfig's defaults.
DefaultFrameworkId == 1
DefaultMaxWorkers == 4
\* range(5) in main().
SampleCount == 5

VARIABLES
    config,      \* self.config: framework_id, max_workers
    metrics,     \* self.metrics
    clock,       \* mono: loop.time(); wall: time.time(); steps: wall clock settings so far
    calls,       \* the run_batch_processing calls, each with its semaphore and units
    report,      \* what get_performance_report last returned (<<>> before any call)
    main,        \* main(): pc, its position ("off": main() is not what runs), and
                 \* err, the line that raised out of it (0: none)
    stdout       \* what main() has printed

vars == <<config, metrics, clock, calls, report, main, stdout>>

\* ------------------------------------------------------------ rationals

RECURSIVE Gcd(_, _)
Gcd(a, b) == IF b = 0 THEN a ELSE Gcd(b, a % b)

Abs(x) == IF x < 0 THEN -x ELSE x

\* n / d for d # 0, in lowest terms with a positive denominator.
Rat(n, d) ==
    LET g == Gcd(Abs(n), Abs(d))
        s == IF d < 0 THEN -1 ELSE 1
    IN  [num |-> s * (n \div g), den |-> s * (d \div g)]

Zero == [num |-> 0, den |-> 1]

\* x / y for rationals, y # 0.
RatDiv(x, y) == Rat(x.num * y.den, x.den * y.num)

RatPositive(x) == x.num > 0

One == [num |-> 1, den |-> 1]

\* What a float division yields: the quotient, or, for a zero divisor,
\* ZeroDivisionError (written as the fraction 0/0, which no quotient is).
DivError == [num |-> 0, den |-> 0]
FloatDiv(x, y) == IF y.num = 0 THEN DivError ELSE RatDiv(x, y)

\* int(x) for a tick count x read as seconds: truncation toward zero.
IntSeconds(ticks) ==
    IF ticks >= 0 THEN ticks \div TicksPerSecond ELSE -((-ticks) \div TicksPerSecond)

\* ------------------------------------------------------------ work items

\* A work item is a mapping with or without a task_id, or not a mapping at
\* all (None, a number): task_data.get then raises AttributeError.
WorkItem(k) == [mapping |-> TRUE, has_id |-> TRUE, task_id |-> k]
NoIdItem == [mapping |-> TRUE, has_id |-> FALSE, task_id |-> 0]
NotAMapping == [mapping |-> FALSE, has_id |-> FALSE, task_id |-> 0]

WorkItems == {WorkItem(k) : k \in 1..MaxId} \cup {NoIdItem, NotAMapping}

SeqsUpTo(S, n) == UNION {[1..k -> S] : k \in 0..n}

\* ------------------------------------------------------------ __init__

InitialMetrics == [tasks_completed |-> 0, total_runtime |-> 0, success_rate |-> 0]

DefaultConfig == [framework_id |-> DefaultFrameworkId, max_workers |-> DefaultMaxWorkers]

\* A run_batch_processing call that has not been made.
NoCall ==
    [status |-> "unused", tasks |-> <<>>, value |-> 0, waiters |-> <<>>,
     pc |-> <<>>, start |-> <<>>, tid |-> <<>>, wake |-> <<>>, res |-> <<>>,
     exc |-> 0, out |-> <<>>]

\* -------------------------------------------------- asyncio.Semaphore

\* Mutant: a gate that never closes.
LockedNever(c) == FALSE

\* locked(): no permit is free, or a waiter is queued.
Locked(c) == c.value = 0 \/ c.waiters # <<>>

\* Mutant: a release that wakes nobody.
WakeUpNobody(c) == c

\* _wake_up_next(): the first waiter not yet woken takes a permit.
WakeUpNext(c) ==
    LET asleep == {k \in 1..Len(c.waiters) : c.pc[c.waiters[k]] = "waiting"}
    IN  IF asleep = {} THEN c
        ELSE LET k == CHOOSE x \in asleep : \A y \in asleep : x <= y
             IN  [c EXCEPT !.value = @ - 1, !.pc[c.waiters[k]] = "granted"]

\* release(), which __aexit__ calls however the body ended.
Release(c) == WakeUpNext([c EXCEPT !.value = @ + 1])

\* acquire() after its wait: the unit leaves the queue; a permit still free
\* wakes the next waiter.
LeaveQueue(c, i) ==
    LET d == [c EXCEPT !.waiters = SelectSeq(@, LAMBDA u : u # i)]
    IN  IF d.value > 0 THEN WakeUpNext(d) ELSE d

\* ------------------------------------------- execute_research_task

\* Mutant: an identifier synthesized from the clock at full resolution.
TaskIdPerTick(item, cfg, clk) ==
    IF item.has_id
    THEN [supplied |-> TRUE, id |-> item.task_id, sec |-> 0]
    ELSE [supplied |-> FALSE, id |-> cfg.framework_id, sec |-> clk.wall]

\* Line 55: the supplied task_id, or task_<framework_id>_<whole seconds>.
TaskId(item, cfg, clk) ==
    IF item.has_id
    THEN [supplied |-> TRUE, id |-> item.task_id, sec |-> 0]
    ELSE [supplied |-> FALSE, id |-> cfg.framework_id, sec |-> IntSeconds(clk.wall)]

\* Mutants: the runtime overwritten, not accumulated; success_rate maintained.
UpdateMetricsOverwrite(m, t) ==
    [m EXCEPT !.tasks_completed = @ + 1, !.total_runtime = t]
UpdateMetricsWithRate(m, t) ==
    [m EXCEPT !.tasks_completed = @ + 1, !.total_runtime = @ + t, !.success_rate = 1]

\* Lines 63-64.
UpdateMetrics(m, t) ==
    [m EXCEPT !.tasks_completed = @ + 1, !.total_runtime = @ + t]

\* Mutant: the division of line 71 without its guard.
ThroughputUnguarded(t) == FloatDiv(One, Rat(t, 1))

\* Line 71.
Throughput(t) == IF t > 0 THEN FloatDiv(One, Rat(t, 1)) ELSE Zero

\* Lines 66-77; m is the accumulator after the update, copied by line 76.
ResultRecord(tid, t, m, cfg) ==
    [task_id |-> tid,
     execution_time |-> t,
     throughput |-> Throughput(t),
     scalability_factor |-> cfg.max_workers,
     framework_metrics |-> m]

\* Mutant: the permit is kept when the executor raises.
EnterExecuteNoRelease(c, i, cfg, clk) ==
    IF ~c.tasks[i].mapping
    THEN [c EXCEPT !.pc[i] = "failed", !.exc = IF @ = 0 THEN i ELSE @]
    ELSE [c EXCEPT !.pc[i] = "sleeping",
                   !.start[i] = clk.wall,
                   !.tid[i] = TaskId(c.tasks[i], cfg, clk),
                   !.wake[i] = clk.mono + SleepTicks]

\* Lines 54-60, entered with a permit held: to the sleep, or out through
\* __aexit__ with AttributeError when the item is not a mapping.
EnterExecute(c, i, cfg, clk) ==
    IF ~c.tasks[i].mapping
    THEN Release([c EXCEPT !.pc[i] = "failed",
                           !.exc = IF @ = 0 THEN i ELSE @])
    ELSE [c EXCEPT !.pc[i] = "sleeping",
                   !.start[i] = clk.wall,
                   !.tid[i] = TaskId(c.tasks[i], cfg, clk),
                   !.wake[i] = clk.mono + SleepTicks]

\* Line 62.
ExecutionTime(c, i, clk) == clk.wall - c.start[i]

\* Mutant: the snapshot taken before the update of lines 63-64.
LeaveExecuteStaleSnapshot(c, i, m, cfg, clk) ==
    LET t == ExecutionTime(c, i, clk)
    IN  Release([c EXCEPT !.pc[i] = "done",
                          !.res[i] = <<ResultRecord(c.tid[i], t, m, cfg)>>])

\* Lines 62-79 and the release of line 88.  A ZeroDivisionError at line 71
\* would leave through __aexit__ like any other error, the metrics updated.
LeaveExecute(c, i, m, cfg, clk) ==
    LET t == ExecutionTime(c, i, clk)
    IN  IF Throughput(t) = DivError
        THEN Release([c EXCEPT !.pc[i] = "failed",
                               !.exc = IF @ = 0 THEN i ELSE @])
        ELSE Release([c EXCEPT !.pc[i] = "done",
                               !.res[i] = <<ResultRecord(c.tid[i], t, UpdateMetrics(m, t), cfg)>>])

\* ---------------------------------------------- run_batch_processing

NoTaskId == [supplied |-> FALSE, id |-> 0, sec |-> 0]

\* A call under way: a semaphore of the given value and one unit per item.
NewCall(items, permits) ==
    [status |-> "running", tasks |-> items, value |-> permits,
     waiters |-> <<>>,
     pc |-> [i \in 1..Len(items) |-> "pending"],
     start |-> [i \in 1..Len(items) |-> 0],
     tid |-> [i \in 1..Len(items) |-> NoTaskId],
     wake |-> [i \in 1..Len(items) |-> 0],
     res |-> [i \in 1..Len(items) |-> <<>>],
     exc |-> 0, out |-> <<>>]

\* Mutants: a gate as wide as the batch; a gate one permit too wide; a
\* gate of at least one permit.
RunBatchAtLeastOne(items, cfg) ==
    NewCall(items, IF cfg.max_workers < 1 THEN 1 ELSE cfg.max_workers)
RunBatchUnbounded(items, cfg) == NewCall(items, Len(items))
RunBatchOffByOne(items, cfg) == NewCall(items, cfg.max_workers + 1)

\* Lines 83-91 up to the await: the semaphore and one unit per item.
RunBatchProcessing(items, cfg) == NewCall(items, cfg.max_workers)

Units(c) == 1..Len(c.tasks)

\* A unit's first run, in the order gather created the units: through the
\* gate and into the executor, or into the gate's queue.
UnitStart(b, i) ==
    /\ calls[b].status # "unused"
    /\ i \in Units(calls[b])
    /\ calls[b].pc[i] = "pending"
    /\ \A j \in 1..(i - 1) : calls[b].pc[j] # "pending"
    /\ calls' = [calls EXCEPT ![b] =
            IF Locked(@)
            THEN [@ EXCEPT !.pc[i] = "waiting", !.waiters = Append(@, i)]
            ELSE EnterExecute([@ EXCEPT !.value = @ - 1], i, config, clock)]
    /\ UNCHANGED <<config, metrics, clock, report, main, stdout>>

\* A woken waiter runs: out of acquire() and into the executor.
UnitResume(b, i) ==
    /\ calls[b].status # "unused"
    /\ i \in Units(calls[b])
    /\ calls[b].pc[i] = "granted"
    /\ calls' = [calls EXCEPT ![b] =
            EnterExecute(LeaveQueue([@ EXCEPT !.pc[i] = "admitted"], i), i, config, clock)]
    /\ UNCHANGED <<config, metrics, clock, report, main, stdout>>

\* The sleep is over: the executor updates the metrics, builds its result
\* and returns, and the unit releases the gate.
UnitWake(b, i) ==
    /\ calls[b].status # "unused"
    /\ i \in Units(calls[b])
    /\ calls[b].pc[i] = "sleeping"
    /\ calls[b].wake[i] <= clock.mono
    /\ metrics' = UpdateMetrics(metrics, ExecutionTime(calls[b], i, clock))
    /\ calls' = [calls EXCEPT ![b] = LeaveExecute(@, i, metrics, config, clock)]
    /\ UNCHANGED <<config, clock, report, main, stdout>>

AllDone(c) == \A i \in Units(c) : c.pc[i] = "done"

\* Mutants: the results in the order the units finished; a unit's error
\* swallowed and an empty list handed over; the errors swallowed and the
\* results of the units that succeeded handed over.
JoinCompletionOrder(c) ==
    IF c.exc # 0
    THEN [c EXCEPT !.status = "raised"]
    ELSE [c EXCEPT !.status = "returned",
                   !.out = SortSeq([i \in Units(c) |-> c.res[i][1]],
                                   LAMBDA x, y : x.framework_metrics.tasks_completed
                                                 < y.framework_metrics.tasks_completed)]
JoinSwallow(c) ==
    IF c.exc # 0
    THEN [c EXCEPT !.status = "returned"]
    ELSE [c EXCEPT !.status = "returned", !.out = [i \in Units(c) |-> c.res[i][1]]]
JoinPartial(c) ==
    LET ok == SelectSeq([i \in Units(c) |-> i], LAMBDA i : c.pc[i] = "done")
    IN  [c EXCEPT !.status = "returned", !.out = [k \in 1..Len(ok) |-> c.res[ok[k]][1]]]

\* The join of line 91 is over: gather hands over the results in the order
\* of its arguments, or the first exception a unit raised.
Join(c) ==
    IF c.exc # 0
    THEN [c EXCEPT !.status = "raised"]
    ELSE [c EXCEPT !.status = "returned", !.out = [i \in Units(c) |-> c.res[i][1]]]

JoinReady(c) == c.status = "running" /\ (c.exc # 0 \/ AllDone(c))

\* run_batch_processing resumes from its await and returns or raises.
BatchJoin(b) ==
    /\ JoinReady(calls[b])
    /\ calls' = [calls EXCEPT ![b] = Join(@)]
    /\ UNCHANGED <<config, metrics, clock, report, main, stdout>>

RECURSIVE SumLen(_)
SumLen(b) == IF b = 0 THEN 0 ELSE Len(calls[b].tasks) + SumLen(b - 1)

\* The work items submitted so far.
Submitted == SumLen(MaxBatches)

\* A caller other than main() calls run_batch_processing.
StartBatch(b, items) ==
    /\ main.pc = "off"
    /\ calls[b].status = "unused"
    /\ \A a \in 1..(b - 1) : calls[a].status # "unused"
    /\ Submitted + Len(items) <= MaxTasks
    /\ calls' = [calls EXCEPT ![b] = RunBatchProcessing(items, config)]
    /\ UNCHANGED <<config, metrics, clock, report, main, stdout>>

\* ------------------------------------------- get_performance_report

\* Lines 98-99.
AverageTaskTime(m) ==
    IF m.tasks_completed > 0
    THEN FloatDiv(Rat(m.total_runtime, 1), Rat(m.tasks_completed, 1))
    ELSE Zero

\* Mutant: the reciprocal of any nonzero average.
TasksPerSecondNonzero(avg) == IF avg.num # 0 THEN RatDiv(One, avg) ELSE Zero

\* Line 107.
TasksPerSecond(avg) == IF RatPositive(avg) THEN FloatDiv(One, avg) ELSE Zero

\* A dictionary entry holding a metrics mapping: the accumulator itself
\* (a reference to self.metrics) or a copy of what it held.
TheAccumulator == [alias |-> TRUE, copy |-> <<>>]
ACopy(m) == [alias |-> FALSE, copy |-> <<m>>]

\* Reading such an entry now.
ReadMetrics(e) == IF e.alias THEN metrics ELSE e.copy[1]

\* Mutant: the report carries a copy of the metrics, as line 76 does.
GetPerformanceReportCopying(m, cfg) ==
    [framework_id |-> cfg.framework_id,
     metrics |-> ACopy(m),
     average_task_time |-> AverageTaskTime(m),
     tasks_per_second |-> TasksPerSecond(AverageTaskTime(m)),
     efficiency_rating |-> "high"]

\* Lines 96-110.  The report's "metrics" entry is self.metrics itself, not a
\* copy: reading it later reads the variable metrics.
GetPerformanceReport(m, cfg) ==
    [framework_id |-> cfg.framework_id,
     metrics |-> TheAccumulator,
     average_task_time |-> AverageTaskTime(m),
     tasks_per_second |-> TasksPerSecond(AverageTaskTime(m)),
     efficiency_rating |-> "high"]

\* Mutant: a report that also starts the accumulator afresh.
ReportAndReset ==
    /\ main.pc = "off"
    /\ report' = <<GetPerformanceReport(metrics, config)>>
    /\ metrics' = InitialMetrics
    /\ UNCHANGED <<config, clock, calls, main, stdout>>

\* A caller other than main() asks for the report.
Report ==
    /\ main.pc = "off"
    /\ report' = <<GetPerformanceReport(metrics, config)>>
    /\ UNCHANGED <<config, metrics, clock, calls, main, stdout>>

\* --------------------------------------------------------------- main

\* Line 35-50.
InitializeResearch(cfg) ==
    [research_id |-> cfg.framework_id, status |-> "initialized"]

\* The names main.py binds at module level, and the builtins it uses.
ModuleGlobals ==
    {"asyncio", "logging", "time", "Dict", "List", "Any", "Optional", "dataclass",
     "ResearchConfig", "DistributedcomputingFramework", "main"}
Builtins == {"print", "range", "int", "len"}
\* main()'s local names, and those of the comprehension of lines 126-129.
MainLocals == {"framework", "init_result", "sample_tasks", "results", "report"}
ComprehensionLocals == {"i"}

\* Python's lookup of a name read in a function body: a local of the
\* function, else a local of an enclosing function, else a global, else a
\* builtin.  A comprehension's names are not visible outside it.
Resolves(name, locals, enclosing) ==
    name \in locals \cup enclosing \cup ModuleGlobals \cup Builtins

\* Lines 126-129.
SampleTasks == [i \in 1..SampleCount |-> WorkItem(i)]

MainReady ==
    /\ main.pc \in {"l119", "l122", "l126", "l131", "l131_await", "l134", "l137"}
    /\ main.pc = "l131_await" => calls[1].status \in {"returned", "raised"}

\* main(), statement by statement.
MainStep ==
    /\ MainReady
    /\ CASE main.pc = "l119" ->
              /\ config' = DefaultConfig
              /\ metrics' = InitialMetrics
              /\ main' = [main EXCEPT !.pc = "l122"]
              /\ UNCHANGED <<calls, report, stdout>>
         []   main.pc = "l122" ->
              /\ stdout' = Append(stdout, [line |-> 123, text |-> InitializeResearch(config)])
              /\ main' = [main EXCEPT !.pc = "l126"]
              /\ UNCHANGED <<config, metrics, calls, report>>
         []   main.pc = "l126" ->
              /\ main' = IF Resolves("index", ComprehensionLocals, MainLocals)
                          THEN [main EXCEPT !.pc = "l131"]
                          ELSE [pc |-> "raised", err |-> 127]
              /\ UNCHANGED <<config, metrics, calls, report, stdout>>
         []   main.pc = "l131" ->
              /\ calls' = [calls EXCEPT ![1] = RunBatchProcessing(SampleTasks, config)]
              /\ main' = [main EXCEPT !.pc = "l131_await"]
              /\ UNCHANGED <<config, metrics, report, stdout>>
         []   main.pc = "l131_await" ->
              /\ main' = IF calls[1].status = "returned"
                          THEN [main EXCEPT !.pc = "l134"]
                          ELSE [pc |-> "raised", err |-> 131]
              /\ UNCHANGED <<config, metrics, calls, report, stdout>>
         []   main.pc = "l134" ->
              /\ report' = <<GetPerformanceReport(metrics, config)>>
              /\ stdout' = Append(stdout, [line |-> 135, text |-> GetPerformanceReport(metrics, config)])
              /\ main' = [main EXCEPT !.pc = "l137"]
              /\ UNCHANGED <<config, metrics, calls>>
         []   main.pc = "l137" ->
              /\ IF Resolves("index", MainLocals, {})
                 THEN /\ stdout' = Append(stdout, [line |-> 137, text |-> "completed"])
                      /\ main' = [main EXCEPT !.pc = "returned"]
                 ELSE /\ stdout' = stdout
                      /\ main' = [pc |-> "raised", err |-> 137]
              /\ UNCHANGED <<config, metrics, calls, report>>
    /\ UNCHANGED clock

\* -------------------------------------------------------------- clocks

UnitReady(c, i, clk) ==
    \/ c.pc[i] \in {"pending", "granted"}
    \/ c.pc[i] = "sleeping" /\ c.wake[i] <= clk.mono

\* Something can run now: the event loop does not wait.
Runnable ==
    \/ \E b \in 1..MaxBatches : \E i \in Units(calls[b]) : UnitReady(calls[b], i, clock)
    \/ \E b \in 1..MaxBatches : JoinReady(calls[b])
    \/ MainReady

Sleeping == \E b \in 1..MaxBatches : \E i \in Units(calls[b]) : calls[b].pc[i] = "sleeping"

\* Nothing can run and a timer is pending: time passes, on both clocks.
Tick ==
    /\ ~Runnable
    /\ Sleeping
    /\ clock' = [clock EXCEPT !.mono = @ + 1, !.wall = @ + 1]
    /\ UNCHANGED <<config, metrics, calls, report, main, stdout>>

\* The system sets the wall clock, forward or back; time.time() follows,
\* the loop's monotonic clock does not.
ClockStep(d) ==
    /\ clock.steps < MaxClockSteps
    /\ clock' = [clock EXCEPT !.wall = @ + d, !.steps = @ + 1]
    /\ UNCHANGED <<config, metrics, calls, report, main, stdout>>

\* ------------------------------------------------------- specification

InitClock == [mono |-> 0, wall |-> WallStart, steps |-> 0]

\* Either main() runs, on the default configuration, or other callers
\* drive an instance constructed with some worker limit.
Init ==
    /\ \/ /\ main = [pc |-> "l119", err |-> 0]
          /\ config = DefaultConfig
       \/ /\ main = [pc |-> "off", err |-> 0]
          /\ config \in {[framework_id |-> DefaultFrameworkId, max_workers |-> w] :
                            w \in 0..MaxWorkers}
    /\ metrics = InitialMetrics
    /\ clock = InitClock
    /\ calls = [b \in 1..MaxBatches |-> NoCall]
    /\ report = <<>>
    /\ stdout = <<>>

Next ==
    \/ \E b \in 1..MaxBatches : \E items \in SeqsUpTo(WorkItems, MaxTasks) : StartBatch(b, items)
    \/ \E b \in 1..MaxBatches : \E i \in Units(calls[b]) : UnitStart(b, i)
    \/ \E b \in 1..MaxBatches : \E i \in Units(calls[b]) : UnitResume(b, i)
    \/ \E b \in 1..MaxBatches : \E i \in Units(calls[b]) : UnitWake(b, i)
    \/ \E b \in 1..MaxBatches : BatchJoin(b)
    \/ Report
    \/ MainStep
    \/ Tick
    \/ \E d \in (-MaxJump..MaxJump) \ {0} : ClockStep(d)

Spec == Init /\ [][Next]_vars

\* The timing specification: one batch of items that are all alike, the
\* wall clock left alone, so that the batch's duration is the gate's doing.
StartUniformBatch(n) ==
    /\ main.pc = "off"
    /\ calls[1].status = "unused"
    /\ calls' = [calls EXCEPT ![1] = RunBatchProcessing([i \in 1..n |-> WorkItem(1)], config)]
    /\ UNCHANGED <<config, metrics, clock, report, main, stdout>>

InitWaves ==
    /\ main = [pc |-> "off", err |-> 0]
    /\ config \in {[framework_id |-> DefaultFrameworkId, max_workers |-> w] :
                      w \in 1..MaxWaveWorkers}
    /\ metrics = InitialMetrics
    /\ clock = InitClock
    /\ calls = [b \in 1..MaxBatches |-> NoCall]
    /\ report = <<>>
    /\ stdout = <<>>

NextWaves ==
    \/ \E n \in 0..MaxWaveTasks : StartUniformBatch(n)
    \/ \E i \in Units(calls[1]) : UnitStart(1, i)
    \/ \E i \in Units(calls[1]) : UnitResume(1, i)
    \/ \E i \in Units(calls[1]) : UnitWake(1, i)
    \/ BatchJoin(1)
    \/ Tick

SpecWaves == InitWaves /\ [][NextWaves]_vars

\* The progress specification: callers start batches; the event loop runs
\* every callback that is ready and fires every timer that is due, which is
\* weak fairness of each unit's steps, of each join and of the passing of
\* time.  The wall clock is left alone and no report is asked for.
InitLive ==
    /\ main = [pc |-> "off", err |-> 0]
    /\ config \in {[framework_id |-> DefaultFrameworkId, max_workers |-> w] :
                      w \in 0..MaxWorkers}
    /\ metrics = InitialMetrics
    /\ clock = InitClock
    /\ calls = [b \in 1..MaxBatches |-> NoCall]
    /\ report = <<>>
    /\ stdout = <<>>

NextLive ==
    \/ \E b \in 1..MaxBatches : \E items \in SeqsUpTo(WorkItems, MaxTasks) : StartBatch(b, items)
    \/ \E b \in 1..MaxBatches : \E i \in Units(calls[b]) : UnitStart(b, i)
    \/ \E b \in 1..MaxBatches : \E i \in Units(calls[b]) : UnitResume(b, i)
    \/ \E b \in 1..MaxBatches : \E i \in Units(calls[b]) : UnitWake(b, i)
    \/ \E b \in 1..MaxBatches : BatchJoin(b)
    \/ Tick

LoopFairness ==
    /\ \A b \in 1..MaxBatches : \A i \in 1..MaxTasks :
         /\ WF_vars(UnitStart(b, i))
         /\ WF_vars(UnitResume(b, i))
         /\ WF_vars(UnitWake(b, i))
    /\ \A b \in 1..MaxBatches : WF_vars(BatchJoin(b))
    /\ WF_vars(Tick)

SpecLive == InitLive /\ [][NextLive]_vars /\ LoopFairness

\* ------------------------------------------------------------- claims

Calls == 1..MaxBatches

\* The units of a call that hold a permit of its gate: acquired, not released.
Holding(c) == {i \in Units(c) : c.pc[i] \in {"granted", "sleeping"}}

Finished(c) == {i \in Units(c) : c.pc[i] \in {"done", "failed"}}

Done(c) == {i \in Units(c) : c.pc[i] = "done"}

RECURSIVE SumOver(_, _)
\* The sum of f[x] over the finite set S.
SumOver(f, S) ==
    IF S = {} THEN 0
    ELSE LET x == CHOOSE y \in S : TRUE IN f[x] + SumOver(f, S \ {x})

TotalHolding == SumOver([b \in Calls |-> Cardinality(Holding(calls[b]))], Calls)

\* C1: a batch that returns hands back one result per work item, the i-th
\* result being the one the i-th item's unit produced and carrying the
\* task_id the i-th item supplied, whatever the order in which units finished.
C1_ResultsInInputOrder ==
    \A b \in Calls :
        LET c == calls[b] IN
        c.status = "returned" =>
            /\ Len(c.out) = Len(c.tasks)
            /\ \A i \in Units(c) :
                 /\ c.out[i] = c.res[i][1]
                 /\ c.tasks[i].has_id =>
                      /\ c.out[i].task_id.supplied
                      /\ c.out[i].task_id.id = c.tasks[i].task_id

\* A returned batch whose second unit finished before its first.
C1_Witness ==
    \E b \in Calls :
        /\ calls[b].status = "returned"
        /\ Len(calls[b].out) >= 2
        /\ calls[b].tasks[1] # calls[b].tasks[2]
        /\ calls[b].out[1].framework_metrics.tasks_completed
             > calls[b].out[2].framework_metrics.tasks_completed

\* C2: within one run_batch_processing call, the units that have acquired
\* the gate and not yet released it never number more than worker_limit.
C2_AtMostLimitInFlight ==
    \A b \in Calls : Cardinality(Holding(calls[b])) <= config.max_workers

\* The gate is full and a unit waits at it.
C2_Witness ==
    \E b \in Calls :
        /\ config.max_workers >= 1
        /\ Cardinality(Holding(calls[b])) = config.max_workers
        /\ \E i \in Units(calls[b]) : calls[b].pc[i] = "waiting"

\* C3: tasks_completed is the number of executor invocations that have
\* finished, and total_runtime the sum of the elapsed times they measured.
C3_MetricsCountFinished ==
    /\ metrics.tasks_completed
         = SumOver([b \in Calls |-> Cardinality(Done(calls[b]))], Calls)
    /\ metrics.total_runtime
         = SumOver([b \in Calls |->
                SumOver([i \in Units(calls[b]) |->
                            IF calls[b].pc[i] = "done"
                            THEN calls[b].res[i][1].execution_time ELSE 0],
                        Units(calls[b]))], Calls)

\* Executions of two calls have finished, with unequal measured times.
C3_Witness ==
    /\ metrics.tasks_completed >= 3
    /\ metrics.total_runtime # metrics.tasks_completed * SleepTicks
    /\ \A b \in Calls : Done(calls[b]) # {}

\* C4: main() raises only at its final print, line 137, after the batch of
\* five has run (tasks_completed = 5) and the initialization result and the
\* report have been printed.
C4_MainFailsOnlyAtFinalPrint ==
    main.pc = "raised" =>
        /\ main.err = 137
        /\ calls[1].status = "returned"
        /\ metrics.tasks_completed = SampleCount
        /\ Len(stdout) = 2

\* C5 as claimed: the executions of all calls on the instance share one
\* gate, so never more than worker_limit hold a permit on the instance.
C5_OneGatePerInstance == TotalHolding <= config.max_workers

\* C5 amended: each call has a gate of its own; a call's executions are at
\* most worker_limit, and the instance's at most worker_limit for each call
\* that has executions under way.
C5_OneGatePerCall ==
    /\ \A b \in Calls :
         /\ Cardinality(Holding(calls[b])) <= config.max_workers
         /\ (\E i \in Units(calls[b]) : calls[b].pc[i] = "waiting") => calls[b].value = 0
    /\ TotalHolding
         <= config.max_workers * Cardinality({b \in Calls : Holding(calls[b]) # {}})

\* Two calls run at once and more than worker_limit executions are active.
C5_Witness ==
    /\ config.max_workers >= 1
    /\ TotalHolding > config.max_workers
    /\ \A b \in Calls : Cardinality(Holding(calls[b])) <= config.max_workers

\* Rational arithmetic for stating the report's ratios.
RatTimesInt(x, n) == Rat(x.num * n, x.den)
RatTimes(x, y) == Rat(x.num * y.num, x.den * y.den)

\* C6 as claimed: the averages are zero when nothing has completed;
\* otherwise average_task_time is total_runtime / tasks_completed, and
\* tasks_per_second is 1 / average_task_time whenever that is nonzero and 0
\* only when it is zero.
C6_ReciprocalWheneverNonzero ==
    [][Report =>
        LET r == report'[1] IN
        /\ metrics.tasks_completed = 0 =>
              r.average_task_time = Zero /\ r.tasks_per_second = Zero
        /\ metrics.tasks_completed > 0 =>
              RatTimesInt(r.average_task_time, metrics.tasks_completed)
                  = Rat(metrics.total_runtime, 1)
        /\ r.average_task_time # Zero =>
              RatTimes(r.tasks_per_second, r.average_task_time) = One
        /\ r.average_task_time = Zero => r.tasks_per_second = Zero]_vars

\* C6 amended: as claimed, except that tasks_per_second is
\* 1 / average_task_time only when the average is positive, and 0 when it
\* is zero or negative (the wall clock was set back during the executions).
C6_ReciprocalWhenPositive ==
    [][Report =>
        LET r == report'[1] IN
        /\ metrics.tasks_completed = 0 =>
              r.average_task_time = Zero /\ r.tasks_per_second = Zero
        /\ metrics.tasks_completed > 0 =>
              RatTimesInt(r.average_task_time, metrics.tasks_completed)
                  = Rat(metrics.total_runtime, 1)
        /\ r.average_task_time.num > 0 =>
              RatTimes(r.tasks_per_second, r.average_task_time) = One
        /\ r.average_task_time.num <= 0 => r.tasks_per_second = Zero]_vars

\* A report of a negative average, with tasks_per_second 0.
C6_Witness ==
    /\ report # <<>>
    /\ report[1].average_task_time.num < 0
    /\ report[1].average_task_time.den > 1
    /\ report[1].tasks_per_second = Zero

\* C7: a call with a unit whose executor raised does not return: it is
\* still running or has raised that unit's error (the first raised), and
\* hands over no list, whatever the other units produced.
C7_FailureFailsTheBatch ==
    \A b \in Calls :
        LET c == calls[b] IN
        /\ (\E i \in Units(c) : c.pc[i] = "failed") =>
              /\ c.status \in {"running", "raised"}
              /\ c.exc \in Units(c) /\ c.pc[c.exc] = "failed"
        /\ c.status = "raised" => c.out = <<>> /\ c.exc \in Units(c)
        /\ c.status = "returned" => \A i \in Units(c) : c.pc[i] = "done"

\* A call has raised although one of its units succeeded.
C7_Witness ==
    \E b \in Calls :
        /\ calls[b].status = "raised"
        /\ Done(calls[b]) # {}
        /\ Cardinality({i \in Units(calls[b]) : calls[b].pc[i] = "failed"}) = 1

\* C8: in every call the free permits and the units holding one add up to
\* worker_limit; a unit that raised holds none; and when all units of a call
\* have finished, by result or by error, all its permits are free.
C8_PermitsConserved ==
    \A b \in Calls :
        LET c == calls[b] IN
        c.status # "unused" =>
            /\ c.value >= 0
            /\ c.value + Cardinality(Holding(c)) = config.max_workers
            /\ Finished(c) = Units(c) => c.value = config.max_workers

\* All units of a call have finished, one of them by error after waiting
\* at the gate, and the gate is free again.
C8_Witness ==
    \E b \in Calls :
        LET c == calls[b] IN
        /\ c.status # "unused"
        /\ config.max_workers = 1
        /\ Len(c.tasks) >= 2
        /\ Finished(c) = Units(c)
        /\ c.pc[1] = "done" /\ c.pc[2] = "failed"
        /\ c.value = config.max_workers

\* C9: success_rate is 0.0 in the accumulator and in every snapshot a
\* result record carries, whatever has run.
C9_SuccessRateStaysZero ==
    /\ metrics.success_rate = 0
    /\ \A b \in Calls : \A i \in Units(calls[b]) :
         calls[b].res[i] # <<>> => calls[b].res[i][1].framework_metrics.success_rate = 0
    /\ \A b \in Calls : \A i \in 1..Len(calls[b].out) :
         calls[b].out[i].framework_metrics.success_rate = 0

\* Tasks of two batches have completed and a report has been made.
C9_Witness ==
    /\ metrics.tasks_completed >= 2
    /\ report # <<>>
    /\ \A b \in Calls : calls[b].status = "returned" /\ calls[b].out # <<>>

Ceil(n, w) == (n + w - 1) \div w

\* C10: a batch of N like items under limit W >= 1 returns when
\* ceil(N / W) sleeps have passed; five items under limit 2 return after 3,
\* later than 1 and sooner than 5.
C10_BatchTakesCeilWaves ==
    LET c == calls[1]
        n == Len(c.tasks)
    IN  c.status = "returned" =>
            /\ clock.mono = Ceil(n, config.max_workers) * SleepTicks
            /\ (n = 5 /\ config.max_workers = 2) =>
                  /\ clock.mono = 3 * SleepTicks
                  /\ clock.mono > 1 * SleepTicks
                  /\ clock.mono < 5 * SleepTicks

\* Five items under limit 2 have returned.
C10_Witness ==
    /\ calls[1].status = "returned"
    /\ Len(calls[1].tasks) = 5
    /\ config.max_workers = 2
    /\ clock.mono = 3 * SleepTicks

\* C11: a get_performance_report call changes nothing but what it returns
\* (the metrics, the configuration, every call's gate and units stay as
\* they were, also while a batch is in flight), and it raises nothing.
C11_ReportChangesNothing ==
    [][Report =>
        /\ metrics' = metrics
        /\ config' = config
        /\ calls' = calls
        /\ clock' = clock /\ main' = main /\ stdout' = stdout
        /\ report'[1].average_task_time # DivError
        /\ report'[1].tasks_per_second # DivError]_vars

\* A report made while the only call still has a unit in the executor and
\* another at the gate, after its first execution finished.
C11_Witness ==
    /\ report # <<>>
    /\ report[1].average_task_time # Zero
    /\ calls[2].status = "unused"
    /\ calls[1].status = "running"
    /\ \E i \in Units(calls[1]) : calls[1].pc[i] = "sleeping"
    /\ calls[1].value = 0
    /\ metrics.tasks_completed = 1

\* C12 as claimed: when a call has returned or raised, none of its units is
\* still waiting at the gate or inside the executor.
C12_CallEndsAfterAllUnits ==
    \A b \in Calls :
        calls[b].status \in {"returned", "raised"} => Finished(calls[b]) = Units(calls[b])

\* C12 amended: when a call has returned, every unit of it has finished;
\* a call raises once a unit of it has failed, whatever the other units
\* are doing.
C12_ReturnAfterAllUnits ==
    \A b \in Calls :
        LET c == calls[b] IN
        /\ c.status = "returned" =>
              /\ Done(c) = Units(c)
              /\ Holding(c) = {} /\ c.waiters = <<>>
        /\ c.status = "raised" => c.exc \in Units(c) /\ c.pc[c.exc] = "failed"

\* A call has raised while one of its units is in the executor and another
\* waits at the gate.
C12_Witness ==
    \E b \in Calls :
        /\ calls[b].status = "raised"
        /\ \E i \in Units(calls[b]) : calls[b].pc[i] = "sleeping"
        /\ \E i \in Units(calls[b]) : calls[b].pc[i] = "waiting"

\* The executions that have finished, as <<call, unit>>.
AllDoneUnits == UNION {{<<b, i>> : i \in Done(calls[b])} : b \in Calls}

Snapshot(u) == calls[u[1]].res[u[2]][1].framework_metrics

\* The tasks_completed values the snapshots of a call's results carry.
SnapshotCounts(c) == {c.res[i][1].framework_metrics.tasks_completed : i \in Done(c)}

Min(S) == CHOOSE x \in S : \A y \in S : x <= y

\* C13 as claimed: the snapshots of a batch of N carry N consecutive values
\* of tasks_completed, c+1..c+N, each once.
C13_BatchSnapshotsConsecutive ==
    \A b \in Calls :
        LET c == calls[b] IN
        (AllDone(c) /\ Units(c) # {}) =>
            SnapshotCounts(c) = Min(SnapshotCounts(c))..(Min(SnapshotCounts(c)) + Len(c.tasks) - 1)

\* C13 amended: each snapshot is taken with its own execution's update: over
\* all executions finished on the instance the snapshots carry the values
\* 1..tasks_completed, each once, each with the runtime summed up to and
\* including its own execution; and a snapshot, once in a result record,
\* never changes.  (Within one batch the values increase in the order the
\* units finished but are consecutive only if no other call's execution
\* finished in between.)
C13_SnapshotsCountEachExecution ==
    /\ [](/\ \A u \in AllDoneUnits : Snapshot(u).tasks_completed \in 1..metrics.tasks_completed
          /\ \A u, v \in AllDoneUnits :
                u # v => Snapshot(u).tasks_completed # Snapshot(v).tasks_completed
          /\ \A u \in AllDoneUnits :
                Snapshot(u).total_runtime
                  = SumOver([v \in AllDoneUnits |->
                                IF Snapshot(v).tasks_completed <= Snapshot(u).tasks_completed
                                THEN calls[v[1]].res[v[2]][1].execution_time ELSE 0],
                            AllDoneUnits))
    /\ [][\A b \in Calls : \A i \in Units(calls[b]) :
            calls[b].res[i] # <<>> => calls'[b].res[i] = calls[b].res[i]]_vars

\* A batch of two has finished with another call's execution between them.
C13_Witness ==
    /\ AllDone(calls[1]) /\ Len(calls[1].tasks) = 2
    /\ SnapshotCounts(calls[1]) = {1, 3}
    /\ SnapshotCounts(calls[2]) = {2}

AllMappings(c) == \A i \in Units(c) : c.tasks[i].mapping

\* Where unit i of call b is ("none": the call has no such unit).
PcOf(b, i) == IF i \in Units(calls[b]) THEN calls[b].pc[i] ELSE "none"

\* C14: with worker_limit >= 1 and every sleep ending, each unit waiting at
\* the gate is eventually admitted to the executor, every call eventually
\* ends, and a call none of whose executors raises eventually returns.
C14_EveryUnitAdmittedAndBatchReturns ==
    /\ \A b \in Calls : \A i \in 1..MaxTasks :
         (config.max_workers >= 1 /\ PcOf(b, i) = "waiting")
           ~> (PcOf(b, i) \in {"sleeping", "done", "failed"})
    /\ \A b \in Calls :
         (config.max_workers >= 1 /\ calls[b].status = "running")
           ~> (calls[b].status \in {"returned", "raised"})
    /\ \A b \in Calls :
         (config.max_workers >= 1 /\ calls[b].status = "running" /\ AllMappings(calls[b]))
           ~> (calls[b].status = "returned")

\* A batch larger than the limit has returned: units of it waited.
C14_Witness ==
    \E b \in Calls :
        /\ config.max_workers >= 1
        /\ calls[b].status = "returned"
        /\ Len(calls[b].tasks) > config.max_workers

\* C15: no ratio is computed by dividing by zero: no executor of a mapping
\* raises, no throughput and no report entry is a ZeroDivisionError; an
\* elapsed time of 0 or less gives throughput 0, a positive one its
\* reciprocal, and a report made with tasks_completed > 0 and
\* total_runtime = 0 has both ratios 0.
C15_NoDivisionByZero ==
    /\ [](/\ \A b \in Calls : \A i \in Units(calls[b]) :
                /\ calls[b].pc[i] = "failed" => ~calls[b].tasks[i].mapping
                /\ calls[b].pc[i] = "done" =>
                     LET r == calls[b].res[i][1] IN
                     /\ r.throughput # DivError
                     /\ r.execution_time <= 0 => r.throughput = Zero
                     /\ r.execution_time > 0 =>
                          RatTimesInt(r.throughput, r.execution_time) = One
          /\ report # <<>> =>
                /\ report[1].average_task_time # DivError
                /\ report[1].tasks_per_second # DivError)
    /\ [][Report =>
            ((metrics.tasks_completed > 0 /\ metrics.total_runtime = 0) =>
                /\ report'[1].average_task_time = Zero
                /\ report'[1].tasks_per_second = Zero)]_vars

\* An execution measured an elapsed time of exactly 0, and the report shows
\* zero ratios with one task completed in no time.
C15_Witness ==
    /\ \E b \in Calls : \E i \in Done(calls[b]) :
         /\ calls[b].res[i][1].execution_time = 0
         /\ calls[b].res[i][1].throughput = Zero
    /\ metrics.tasks_completed > 0 /\ metrics.total_runtime = 0
    /\ report # <<>>
    /\ report[1].average_task_time = Zero /\ report[1].tasks_per_second = Zero

\* The units that have entered the executor, as <<call, unit>>.
Entered == UNION {{<<b, i>> : i \in {j \in Units(calls[b]) : calls[b].pc[j] \in {"sleeping", "done"}}} : b \in Calls}

\* C16: an executor uses the task_id its item supplies; for an item without
\* one it makes task_<framework_id>_<s>, s the whole second of the clock at
\* its start, so two such items started within one second get the same
\* task_id; and the result record carries that identifier.
C16_TaskIdSuppliedOrPerSecond ==
    /\ \A u \in Entered :
         LET c == calls[u[1]]
             i == u[2]
         IN  /\ c.tasks[i].has_id =>
                  c.tid[i].supplied /\ c.tid[i].id = c.tasks[i].task_id
             /\ ~c.tasks[i].has_id =>
                  /\ ~c.tid[i].supplied
                  /\ c.tid[i].id = config.framework_id
                  /\ c.tid[i].sec * TicksPerSecond <= c.start[i]
                  /\ c.start[i] < (c.tid[i].sec + 1) * TicksPerSecond
             /\ c.pc[i] = "done" => c.res[i][1].task_id = c.tid[i]
    /\ \A u, v \in Entered :
         LET c == calls[u[1]]
             d == calls[v[1]]
         IN  (/\ ~c.tasks[u[2]].has_id /\ ~d.tasks[v[2]].has_id
              /\ IntSeconds(c.start[u[2]]) = IntSeconds(d.start[v[2]]))
             => c.tid[u[2]] = d.tid[v[2]]

\* A batch has returned two results with the same synthesized task_id, and
\* a third, started in the next second, with another.
C16_Witness ==
    \E b \in Calls :
        /\ calls[b].status = "returned"
        /\ Len(calls[b].out) = 3
        /\ \A i \in 1..3 : ~calls[b].out[i].task_id.supplied
        /\ calls[b].out[1].task_id = calls[b].out[2].task_id
        /\ calls[b].out[3].task_id # calls[b].out[1].task_id

\* C17: with max_workers = 0 no unit passes the gate, tasks_completed stays
\* 0 and a call with work items neither returns nor raises; a call with no
\* work items returns the empty list.
C17_ZeroWorkersNeverAdmits ==
    /\ [](config.max_workers = 0 =>
            /\ metrics.tasks_completed = 0
            /\ \A b \in Calls :
                 /\ Holding(calls[b]) = {} /\ Finished(calls[b]) = {}
                 /\ calls[b].tasks # <<>> => calls[b].status \in {"unused", "running"})
    /\ \A b \in Calls :
         (calls[b].status = "running" /\ calls[b].tasks = <<>>)
           ~> (calls[b].status = "returned" /\ calls[b].out = <<>>)

\* Under max_workers = 0 a batch of two is stuck at the gate with nothing
\* left to run, and a call with no items has returned.
C17_Witness ==
    /\ config.max_workers = 0
    /\ calls[1].status = "running" /\ Len(calls[1].tasks) = 2
    /\ \A i \in Units(calls[1]) : calls[1].pc[i] = "waiting"
    /\ calls[2].status = "returned" /\ calls[2].tasks = <<>>
    /\ ~Runnable

\* C18: the metrics entry of a returned report is the accumulator itself:
\* read at any later time it shows the current totals; the report's
\* average_task_time and tasks_per_second change only by a new
\* get_performance_report call; and the framework_metrics of a result
\* record never change.
C18_ReportMetricsAreLive ==
    /\ [](report # <<>> => ReadMetrics(report[1].metrics) = metrics)
    /\ [][(report # <<>> /\ ~Report /\ ~MainStep) =>
            /\ report'[1].average_task_time = report[1].average_task_time
            /\ report'[1].tasks_per_second = report[1].tasks_per_second]_vars
    /\ [][\A u \in AllDoneUnits :
            calls'[u[1]].res[u[2]][1].framework_metrics = Snapshot(u)]_vars

\* A report made after the first execution, read after the second: its
\* metrics show two tasks, its average is still that of the first, and the
\* first result's snapshot still shows one.
C18_Witness ==
    /\ report # <<>>
    /\ ReadMetrics(report[1].metrics).tasks_completed = 2
    /\ report[1].average_task_time # Zero
    /\ report[1].average_task_time # AverageTaskTime(metrics)
    /\ \E u \in AllDoneUnits : Snapshot(u).tasks_completed = 1

====
